---- MODULE Spec2Model ----
(***************************************************************************)
(* Model of ec2_price.go: the two-tier disk cache (catalog blob, one blob  *)
(* per price query) and the resolution pipeline                            *)
(* GetEC2Price -> GetOffers -> GetSKU -> GetPrice -> strconv.ParseFloat.   *)
(*                                                                         *)
(* Representation.                                                         *)
(*  - A float64 is its IEEE-754 bit pattern, kept as four 16-bit words,    *)
(*    most significant first (TLC integers are 32 bits wide).              *)
(*  - A price string is a sequence of one-character strings.               *)
(*  - A file is [exists, data, mtime]; the data of a per-query file is a   *)
(*    sequence of bytes, the data of the catalog file is the fetched body. *)
(*  - Time is counted in whole seconds.                                    *)
(*  - Disk reads and writes of the cache directory succeed.                *)
(*  - One GetEC2Price call is one step: main makes one call per process,   *)
(*    and the files outlive the process.  A call that ends in log.Fatalf   *)
(*    has status "fatal"; the next call is made by a new process.          *)
(*  - Go leaves the iteration order of a map unspecified: GetSKU and       *)
(*    GetPrice are modelled by the set of results over all orders.         *)
(***************************************************************************)
EXTENDS Integers, Sequences, FiniteSets, TLC

(***************************************************************************)
(* Program constants                                                       *)
(***************************************************************************)
MAX_CACHE_AGE == 86400

AWS_LOCATION == "US West (Oregon)"

CACHE_DIR == "/tmp/.aws_pricing"

(***************************************************************************)
(* float64 <-> bytes: binary.Write / binary.Read with binary.LittleEndian  *)
(***************************************************************************)
\* binary.Write(buf, binary.LittleEndian, price_f): math.Float64bits(price_f)
\* laid out least significant byte first.
LittleEndianBytes(f) ==
    << f[4] % 256, f[4] \div 256, f[3] % 256, f[3] \div 256,
       f[2] % 256, f[2] \div 256, f[1] % 256, f[1] \div 256 >>

\* binary.Read(buf, binary.LittleEndian, &price_f): needs 8 bytes (io.EOF on
\* an empty reader, io.ErrUnexpectedEOF on a short one), ignores the rest.
BinaryRead(b) ==
    IF Len(b) < 8
    THEN [err |-> "StoreIOError", value |-> <<0, 0, 0, 0>>]
    ELSE [err |-> "",
          value |-> << b[8] * 256 + b[7], b[6] * 256 + b[5],
                       b[4] * 256 + b[3], b[2] * 256 + b[1] >>]

\* The writer lays the bytes out most significant first.
BinaryWriteBigEndian(f) ==
    << f[1] \div 256, f[1] % 256, f[2] \div 256, f[2] % 256,
       f[3] \div 256, f[3] % 256, f[4] \div 256, f[4] % 256 >>

\* The writer stores the value as a float32-sized blob: four bytes.
BinaryWriteFourBytes(f) == <<f[2] % 256, f[2] \div 256, f[1] % 256, f[1] \div 256>>

BinaryWrite(f) == LittleEndianBytes(f)

(***************************************************************************)
(* strconv.ParseFloat(s, 64) on the decimal grammar [+-]?digits[.digits]   *)
(* (at least one digit): the correctly rounded (nearest, ties to even)     *)
(* binary64 value of the decimal, for values in the normal range.          *)
(***************************************************************************)
DigitValue ==
    [c \in {"0", "1", "2", "3", "4", "5", "6", "7", "8", "9"} |->
        CASE c = "0" -> 0 [] c = "1" -> 1 [] c = "2" -> 2 [] c = "3" -> 3
          [] c = "4" -> 4 [] c = "5" -> 5 [] c = "6" -> 6 [] c = "7" -> 7
          [] c = "8" -> 8 [] c = "9" -> 9]

IsDigit(c) == c \in DOMAIN DigitValue

RECURSIVE Pow(_, _)
Pow(b, n) == IF n = 0 THEN 1 ELSE b * Pow(b, n - 1)

\* Scan of the characters after the sign: the digits read so far as an
\* integer n, the number k of digits after the point, whether a point and
\* whether a digit was seen; ok is FALSE on any other character or a second
\* point.
RECURSIVE ScanDecimal(_, _, _)
ScanDecimal(s, i, acc) ==
    IF i > Len(s) THEN acc
    ELSE IF IsDigit(s[i])
         THEN ScanDecimal(s, i + 1,
                [acc EXCEPT !.n = acc.n * 10 + DigitValue[s[i]],
                            !.k = IF acc.point THEN acc.k + 1 ELSE acc.k,
                            !.digits = TRUE])
         ELSE IF s[i] = "." /\ ~acc.point
              THEN ScanDecimal(s, i + 1, [acc EXCEPT !.point = TRUE])
              ELSE [acc EXCEPT !.ok = FALSE]

\* The binary exponent e with 2^e <= n/d < 2^(e+1), for n > 0.
RECURSIVE Exponent(_, _)
Exponent(n, d) ==
    IF n >= 2 * d THEN 1 + Exponent(n, 2 * d)
    ELSE IF n < d THEN Exponent(2 * n, d) - 1
    ELSE 0

\* Long division of r/d (0 <= r < d): the next `left` quotient bits, then the
\* remainder.
RECURSIVE DivideBits(_, _, _, _)
DivideBits(r, d, left, bits) ==
    IF left = 0 THEN [bits |-> bits, rem |-> r]
    ELSE IF 2 * r >= d
         THEN DivideBits(2 * r - d, d, left - 1, Append(bits, 1))
         ELSE DivideBits(2 * r, d, left - 1, Append(bits, 0))

\* bits + 1, as a sequence of the same length, with the carry out.
RECURSIVE Increment(_, _)
Increment(bits, i) ==
    IF i = 0 THEN [bits |-> bits, carry |-> 1]
    ELSE IF bits[i] = 0 THEN [bits |-> [bits EXCEPT ![i] = 1], carry |-> 0]
    ELSE Increment([bits EXCEPT ![i] = 0], i - 1)

RECURSIVE BitsValue(_, _, _)
BitsValue(bits, from, to) ==
    IF from > to THEN 0
    ELSE 2 * BitsValue(bits, from, to - 1) + bits[to]

\* sign, biased exponent and 52 fraction bits packed into four words.
PackFloat64(sign, biased, frac) ==
    << sign * 32768 + biased * 16 + BitsValue(frac, 1, 4),
       BitsValue(frac, 5, 20), BitsValue(frac, 21, 36), BitsValue(frac, 37, 52) >>

\* n / d rounded to binary64, n > 0, d > 0.
RoundToFloat64(sign, n, d) ==
    LET e == Exponent(n, d)
        num == IF e < 0 THEN n * Pow(2, 0 - e) ELSE n
        den == IF e > 0 THEN d * Pow(2, e) ELSE d
        q == DivideBits(num - den, den, 52, <<>>)
        up == \/ 2 * q.rem > den
              \/ 2 * q.rem = den /\ q.bits[52] = 1
        inc == Increment(q.bits, 52)
        frac == IF up THEN inc.bits ELSE q.bits
        exp == IF up /\ inc.carry = 1 THEN e + 1 ELSE e
    IN PackFloat64(sign, exp + 1023, frac)

ParseFloat(s) ==
    LET signed == Len(s) > 0 /\ s[1] \in {"-", "+"}
        sign == IF signed /\ s[1] = "-" THEN 1 ELSE 0
        scan == ScanDecimal(s, IF signed THEN 2 ELSE 1,
                  [n |-> 0, k |-> 0, point |-> FALSE, digits |-> FALSE, ok |-> TRUE])
    IN IF ~scan.ok \/ ~scan.digits
       THEN [err |-> "InvalidPriceFormat", value |-> <<0, 0, 0, 0>>]
       ELSE IF scan.n = 0
       THEN [err |-> "", value |-> <<sign * 32768, 0, 0, 0>>]
       ELSE [err |-> "", value |-> RoundToFloat64(sign, scan.n, Pow(10, scan.k))]


(***************************************************************************)
(* The decoded catalog (type Offer) and the catalogs the endpoint serves   *)
(***************************************************************************)
Attrs(it, loc, ten, os) ==
    [instanceType |-> it, location |-> loc, tenancy |-> ten, operatingSystem |-> os]

\* Terms[term][sku]: one Term with one PriceDimension.
OneTerm(ppu) == [term1 |-> [PriceDimensions |-> [dim1 |-> [PricePerUnit |-> ppu]]]]

P0956 == <<"0", ".", "9", "5", "6">>
P15 == <<"1", ".", "5">>
P05 == <<"0", ".", "5">>
P3 == <<"3">>
PBad == <<"n", "/", "a">>

NoTerms == [t \in {} |-> 0]

EmptyOffer == [Products |-> [k \in {} |-> 0], Terms |-> NoTerms]

Linux4x(sku, loc, ten) ==
    [SKU |-> sku, Attributes |-> Attrs("m4.4xlarge", loc, ten, "Linux")]

\* The scenario of the specification, with a product of another region, a
\* product whose attributes lack the four fields, and a product of the
\* instance class "m4.4xlargeS" with tenancy "hared".
CatScenario ==
    [Products |->
        [ABC |-> Linux4x("ABC", AWS_LOCATION, "Shared"),
         XYZ |-> Linux4x("XYZ", "US East (N. Virginia)", "Shared"),
         DTX |-> [SKU |-> "DTX", Attributes |-> [location |-> AWS_LOCATION]],
         COL |-> [SKU |-> "COL",
                  Attributes |-> Attrs("m4.4xlargeS", AWS_LOCATION, "hared", "Linux")]],
     Terms |->
        [OnDemand |-> [ABC |-> OneTerm([USD |-> P0956]),
                       XYZ |-> OneTerm([USD |-> P3]),
                       COL |-> OneTerm([USD |-> P15])]]]

\* A later publication of the catalog: the price of ABC has changed.
CatRepriced ==
    [Products |-> [ABC |-> Linux4x("ABC", AWS_LOCATION, "Shared")],
     Terms |-> [OnDemand |-> [ABC |-> OneTerm([USD |-> P05])]]]

\* Two products match the Shared query.
CatAmbiguous ==
    [Products |-> [ABC |-> Linux4x("ABC", AWS_LOCATION, "Shared"),
                   GHI |-> Linux4x("GHI", AWS_LOCATION, "Shared")],
     Terms |-> [OnDemand |-> [ABC |-> OneTerm([USD |-> P0956]),
                              GHI |-> OneTerm([USD |-> P15])]]]

\* Two matching products whose "sku" field is absent from the JSON (decoded
\* as the empty string).
CatBlankTwo ==
    [Products |-> [ABC |-> Linux4x("", AWS_LOCATION, "Shared"),
                   GHI |-> Linux4x("", AWS_LOCATION, "Shared")],
     Terms |-> [OnDemand |-> [ABC |-> OneTerm([USD |-> P0956]),
                              GHI |-> OneTerm([USD |-> P15])]]]

\* Two matching products, one of them without a "sku" field.
CatBlankMixed ==
    [Products |-> [ABC |-> Linux4x("", AWS_LOCATION, "Shared"),
                   GHI |-> Linux4x("GHI", AWS_LOCATION, "Shared")],
     Terms |-> [OnDemand |-> [ABC |-> OneTerm([USD |-> P0956]),
                              GHI |-> OneTerm([USD |-> P15])]]]

\* One matching product, stored under the key ABC, whose "sku" field is
\* absent.
CatBlankOne ==
    [Products |-> [ABC |-> Linux4x("", AWS_LOCATION, "Shared")],
     Terms |-> [OnDemand |-> [ABC |-> OneTerm([USD |-> P0956])]]]

\* One matching product, stored under the key ABC, whose "sku" field names
\* another SKU.
CatKeyMismatch ==
    [Products |-> [ABC |-> Linux4x("GHI", AWS_LOCATION, "Shared")],
     Terms |-> [OnDemand |-> [ABC |-> OneTerm([USD |-> P0956]),
                              GHI |-> OneTerm([USD |-> P15])]]]

\* No Dedicated product, and a term entry under the empty SKU.
CatOrphanTerm ==
    [Products |-> [ABC |-> Linux4x("ABC", AWS_LOCATION, "Shared")],
     Terms |-> [OnDemand |-> ("" :> OneTerm([USD |-> P3])
                              @@ [ABC |-> OneTerm([USD |-> P0956])])]]

\* The price string of the matching product is not a number; the term
\* mapping has no OnDemand entry for the "hared" product.
CatBadPrice ==
    [Products |->
        [ABC |-> Linux4x("ABC", AWS_LOCATION, "Shared"),
         COL |-> [SKU |-> "COL",
                  Attributes |-> Attrs("m4.4xlargeS", AWS_LOCATION, "hared", "Linux")]],
     Terms |-> [OnDemand |-> [ABC |-> OneTerm([USD |-> PBad])],
                Reserved |-> [COL |-> OneTerm([USD |-> P15])]]]

PriceStrings == {P0956, P15, P05, P3, PBad}

\* ParseFloat on the price strings of the catalogs, computed once.
ParseFloatOf == [s \in PriceStrings |-> ParseFloat(s)] @@ <<>>

Catalogs ==
    {CatScenario, CatRepriced, CatAmbiguous, CatBlankTwo, CatBlankMixed,
     CatBlankOne, CatKeyMismatch, CatOrphanTerm, CatBadPrice}

(***************************************************************************)
(* Response bodies and json.Unmarshal.  A body is the JSON text of a       *)
(* catalog, or bytes that do not decode into an Offer.                     *)
(***************************************************************************)
JSON(offer) == [valid |-> TRUE, offer |-> offer]

Garbage == [valid |-> FALSE, offer |-> EmptyOffer]

Bodies == {JSON(c) : c \in Catalogs} \cup {Garbage}

Unmarshal(body) ==
    IF body.valid THEN [err |-> "", offer |-> body.offer]
    ELSE [err |-> "MalformedCatalog", offer |-> EmptyOffer]

\* What http.Get and ioutil.ReadAll give: a transport error, an error while
\* reading the body, or a body.
NetResponses ==
    {[kind |-> "GetError", body |-> Garbage], [kind |-> "ReadError", body |-> Garbage]}
    \cup {[kind |-> "Body", body |-> b] : b \in Bodies}

(***************************************************************************)
(* Queries and cache keys                                                  *)
(***************************************************************************)
Query(it, ten, os, term) ==
    [instance_type |-> it, tenancy |-> ten, operating_system |-> os, term |-> term]

QShared == Query("m4.4xlarge", "Shared", "Linux", "OnDemand")
QDedicated == Query("m4.4xlarge", "Dedicated", "Linux", "OnDemand")
\* Another query whose four fields concatenate to the same text as QShared's.
QHared == Query("m4.4xlargeS", "hared", "Linux", "OnDemand")

Queries == {QShared, QDedicated, QHared}

\* GetMD5Hash: the hex digest of the text.  The digest is kept symbolic: a
\* function of the text and nothing else, distinct texts giving distinct
\* digests.
GetMD5Hash(text) == "md5:" \o text

CacheFile(q) ==
    CACHE_DIR \o "/" \o
        GetMD5Hash(q.instance_type \o q.tenancy \o q.operating_system \o q.term)

CacheFiles == {CacheFile(q) : q \in Queries}

(***************************************************************************)
(* State                                                                   *)
(***************************************************************************)
VARIABLES
    clock,    \* the time, in seconds
    ticks,    \* how often the clock has advanced
    offers,   \* the file CACHE_DIR/offers
    cache,    \* the per-query files, by path
    last,     \* the latest GetEC2Price call: its query, outcome and steps
    hist,     \* by query, its latest successful call
    origin,   \* where the files' contents come from: when the bytes of the
              \* catalog file were fetched, and by file the query and the
              \* value of the call that wrote it
    codec,    \* the value stored and loaded by the round trip of a blob
    lookup,   \* a GetPrice call on its own: its inputs and its result
    race      \* two processes on one per-query file: a writer and a reader

vars == <<clock, ticks, offers, cache, last, hist, origin, codec, lookup, race>>

\* The variables of the specifications that look at one part of the program.
side == <<codec, lookup, race>>

MaxTicks == 2

\* The clock advances by one second less than the cache age, or by the cache
\* age.
Deltas == {MAX_CACHE_AGE - 1, MAX_CACHE_AGE}

Zero == <<0, 0, 0, 0>>

NoFile == [exists |-> FALSE, data |-> <<>>, mtime |-> 0]

NoOffers == [exists |-> FALSE, data |-> Garbage, mtime |-> 0]

WriteFile(data, t) == [exists |-> TRUE, data |-> data, mtime |-> t]

(***************************************************************************)
(* Offer.GetSKU                                                            *)
(***************************************************************************)
\* A map lookup: the zero value when the key is absent.
Lookup(m, k, zero) == IF k \in DOMAIN m THEN m[k] ELSE zero

\* The location predicate is left out.
MatchesAnyLocation(product, instance_type, tenancy, os) ==
    /\ Lookup(product.Attributes, "instanceType", "") = instance_type
    /\ Lookup(product.Attributes, "tenancy", "") = tenancy
    /\ Lookup(product.Attributes, "operatingSystem", "") = os

Matches(product, instance_type, tenancy, os) ==
    /\ Lookup(product.Attributes, "instanceType", "") = instance_type
    /\ Lookup(product.Attributes, "location", "") = AWS_LOCATION
    /\ Lookup(product.Attributes, "tenancy", "") = tenancy
    /\ Lookup(product.Attributes, "operatingSystem", "") = os

AmbiguousMatch == "More than one SKU found!"

PriceNotFound == "Could not find price!"

\* The loop over o.Products in the iteration order `order`, from its i-th
\* key on, with the SKU found so far.
RECURSIVE ScanProducts(_, _, _, _, _, _, _)
ScanProducts(o, order, i, sku, instance_type, tenancy, os) ==
    IF i > Len(order) THEN [err |-> "", sku |-> sku]
    ELSE LET product == o.Products[order[i]]
         IN IF Matches(product, instance_type, tenancy, os)
            THEN IF sku # ""
                 THEN [err |-> AmbiguousMatch, sku |-> ""]
                 ELSE ScanProducts(o, order, i + 1, product.SKU,
                                   instance_type, tenancy, os)
            ELSE ScanProducts(o, order, i + 1, sku, instance_type, tenancy, os)

GetSKU(o, order, instance_type, tenancy, os) ==
    ScanProducts(o, order, 1, "", instance_type, tenancy, os)

\* The orders in which a range over a Go map with the keys S may run.
Orders(S) ==
    {s \in [1..Cardinality(S) -> S] : \A i, j \in DOMAIN s : i # j => s[i] # s[j]}

GetSKUResults(o, instance_type, tenancy, os) ==
    {GetSKU(o, order, instance_type, tenancy, os) : order \in Orders(DOMAIN o.Products)}

\* GetSKUResults on the catalogs and queries of the model, computed once.
GetSKUResultsOf ==
    [o \in Catalogs \cup {EmptyOffer} |->
        [q \in Queries |->
            GetSKUResults(o, q.instance_type, q.tenancy, q.operating_system)] @@ <<>>]
    @@ <<>>

(***************************************************************************)
(* Offer.GetPrice                                                          *)
(***************************************************************************)
NoMap == [k \in {} |-> 0]

\* o.Terms[term][sku]: empty when term or sku is absent.
TermsOf(o, sku, term) == Lookup(Lookup(o.Terms, term, NoMap), sku, NoMap)

\* Every (currency, value) the three nested loops can reach.
PricePairs(o, sku, term) ==
    LET terms == TermsOf(o, sku, term)
    IN UNION {UNION {{[Currency |-> c,
                       Value |-> terms[t].PriceDimensions[d].PricePerUnit[c]] :
                        c \in DOMAIN terms[t].PriceDimensions[d].PricePerUnit} :
                     d \in DOMAIN terms[t].PriceDimensions} :
              t \in DOMAIN terms}

NoPrice == [Currency |-> "", Value |-> <<>>]

\* The search gives up after the first Term it reaches.
GetPriceFirstTermOnly(o, sku, term) ==
    LET terms == TermsOf(o, sku, term)
        pairs(t) == UNION {{[Currency |-> c,
                             Value |-> terms[t].PriceDimensions[d].PricePerUnit[c]] :
                               c \in DOMAIN terms[t].PriceDimensions[d].PricePerUnit} :
                           d \in DOMAIN terms[t].PriceDimensions}
    IN IF DOMAIN terms = {}
       THEN {[err |-> PriceNotFound, price |-> NoPrice]}
       ELSE UNION {IF pairs(t) = {}
                   THEN {[err |-> PriceNotFound, price |-> NoPrice]}
                   ELSE {[err |-> "", price |-> p] : p \in pairs(t)} :
                   t \in DOMAIN terms}

\* The loops return at the first pair they reach; the iteration order of
\* the three maps is unspecified, so any pair may be the first.
GetPriceResults(o, sku, term) ==
    IF PricePairs(o, sku, term) = {}
    THEN {[err |-> PriceNotFound, price |-> NoPrice]}
    ELSE {[err |-> "", price |-> p] : p \in PricePairs(o, sku, term)}

(***************************************************************************)
(* GetOffers                                                               *)
(***************************************************************************)
\* A catalog of age MAX_CACHE_AGE still counts as fresh.
OffersCacheFreshLax(file, t) == file.exists /\ t - file.mtime <= MAX_CACHE_AGE

OffersCacheFresh(file, t) == file.exists /\ t - file.mtime < MAX_CACHE_AGE

\* The body is decoded first and stored only if it decodes.
GetOffersDecodeFirst(file, t, net) ==
    IF ~OffersCacheFresh(file, t) /\ net.kind # "Body"
    THEN [err |-> "FetchFailed", offer |-> EmptyOffer, file |-> file,
          fetches |-> 1, reads |-> 0, writes |-> 0, decodes |-> 0]
    ELSE LET hit == OffersCacheFresh(file, t)
             body == IF hit THEN file.data ELSE net.body
             good == Unmarshal(body).err = ""
         IN [err |-> Unmarshal(body).err,
             offer |-> Unmarshal(body).offer,
             file |-> IF good THEN WriteFile(body, t) ELSE file,
             fetches |-> IF hit THEN 0 ELSE 1,
             reads |-> IF hit THEN 1 ELSE 0,
             writes |-> IF good THEN 1 ELSE 0,
             decodes |-> 1]

\* A failed fetch is tried a second time before it is reported.
GetOffersRetries(file, t, net) ==
    IF ~OffersCacheFresh(file, t) /\ net.kind # "Body"
    THEN [err |-> "FetchFailed", offer |-> EmptyOffer, file |-> file,
          fetches |-> 2, reads |-> 0, writes |-> 0, decodes |-> 0]
    ELSE LET hit == OffersCacheFresh(file, t)
             body == IF hit THEN file.data ELSE net.body
         IN [err |-> Unmarshal(body).err,
             offer |-> Unmarshal(body).offer,
             file |-> WriteFile(body, t),
             fetches |-> IF hit THEN 0 ELSE 1,
             reads |-> IF hit THEN 1 ELSE 0,
             writes |-> 1,
             decodes |-> 1]

\* file is CACHE_DIR/offers, t the time, net what the endpoint would answer.
\* fetches, reads, writes, decodes: the http.Get calls, reads of and writes
\* to the file, and json.Unmarshal calls made.
GetOffers(file, t, net) ==
    IF ~OffersCacheFresh(file, t) /\ net.kind # "Body"
    THEN [err |-> "FetchFailed", offer |-> EmptyOffer, file |-> file,
          fetches |-> 1, reads |-> 0, writes |-> 0, decodes |-> 0]
    ELSE LET hit == OffersCacheFresh(file, t)
             body == IF hit THEN file.data ELSE net.body
         IN [err |-> Unmarshal(body).err,
             offer |-> Unmarshal(body).offer,
             file |-> WriteFile(body, t),
             fetches |-> IF hit THEN 0 ELSE 1,
             reads |-> IF hit THEN 1 ELSE 0,
             writes |-> 1,
             decodes |-> 1]

(***************************************************************************)
(* GetEC2Price                                                             *)
(***************************************************************************)
\* The comparison is the wrong way round.
QueryCacheFreshInverted(file, t) == file.exists /\ t - file.mtime > MAX_CACHE_AGE

\* A blob of age MAX_CACHE_AGE still counts as fresh.
QueryCacheFreshLax(file, t) == file.exists /\ t - file.mtime <= MAX_CACHE_AGE

QueryCacheFresh(file, t) == file.exists /\ t - file.mtime < MAX_CACHE_AGE

\* The branch taken on a fresh per-query file.
HitPath(file) ==
    LET r == BinaryRead(file.data)
    IN [status |-> IF r.err = "" THEN "ok" ELSE "error",
        err |-> r.err, value |-> r.value, file |-> file,
        calls |-> <<"ReadFile", "binary.Read">>]

\* A failed lookup is stored as the price 0.
MissPathCachesFailure(file, t, g, sr, pr) ==
    IF g.err # ""
    THEN [status |-> "fatal", err |-> g.err, value |-> Zero, file |-> file,
          calls |-> <<"GetOffers">>]
    ELSE IF sr.err # ""
    THEN [status |-> "error", err |-> sr.err, value |-> Zero, file |-> file,
          calls |-> <<"GetOffers", "GetSKU">>]
    ELSE IF pr.err # ""
    THEN [status |-> "error", err |-> pr.err, value |-> Zero,
          file |-> WriteFile(BinaryWrite(Zero), t),
          calls |-> <<"GetOffers", "GetSKU", "GetPrice">>]
    ELSE IF ParseFloatOf[pr.price.Value].err # ""
    THEN [status |-> "error", err |-> ParseFloatOf[pr.price.Value].err,
          value |-> Zero, file |-> file,
          calls |-> <<"GetOffers", "GetSKU", "GetPrice", "ParseFloat">>]
    ELSE [status |-> "ok", err |-> "",
          value |-> ParseFloatOf[pr.price.Value].value,
          file |-> WriteFile(BinaryWrite(ParseFloatOf[pr.price.Value].value), t),
          calls |-> <<"GetOffers", "GetSKU", "GetPrice", "ParseFloat",
                      "binary.Write", "WriteFile">>]

\* The branch taken otherwise: g is what GetOffers returned, sr what GetSKU
\* returned, pr what GetPrice returned.  log.Fatalf ends the process
\* (status "fatal"); the other failures return (0, err).
MissPath(file, t, g, sr, pr) ==
    IF g.err # ""
    THEN [status |-> "fatal", err |-> g.err, value |-> Zero, file |-> file,
          calls |-> <<"GetOffers">>]
    ELSE IF sr.err # ""
    THEN [status |-> "error", err |-> sr.err, value |-> Zero, file |-> file,
          calls |-> <<"GetOffers", "GetSKU">>]
    ELSE IF pr.err # ""
    THEN [status |-> "error", err |-> pr.err, value |-> Zero, file |-> file,
          calls |-> <<"GetOffers", "GetSKU", "GetPrice">>]
    ELSE IF ParseFloatOf[pr.price.Value].err # ""
    THEN [status |-> "error", err |-> ParseFloatOf[pr.price.Value].err,
          value |-> Zero, file |-> file,
          calls |-> <<"GetOffers", "GetSKU", "GetPrice", "ParseFloat">>]
    ELSE [status |-> "ok", err |-> "",
          value |-> ParseFloatOf[pr.price.Value].value,
          file |-> WriteFile(BinaryWrite(ParseFloatOf[pr.price.Value].value), t),
          calls |-> <<"GetOffers", "GetSKU", "GetPrice", "ParseFloat",
                      "binary.Write", "WriteFile">>]

NoCalls == [fetches |-> 0, reads |-> 0, writes |-> 0, decodes |-> 0]

\* What the call found when it started: the per-query file and its age, the
\* catalog file and its age, and the latest successful call of the query if
\* the blob that call returned is the one still in the file.
Before(q) ==
    [exists |-> cache[CacheFile(q)].exists,
     age |-> clock - cache[CacheFile(q)].mtime,
     offersExists |-> offers.exists,
     offersAge |-> clock - offers.mtime,
     again |-> /\ hist[q].ok
               /\ cache[CacheFile(q)].exists
               /\ hist[q].mtime = cache[CacheFile(q)].mtime,
     value |-> hist[q].value]

\* What GetOffers returned and did, without the file it left.
Outcome(g) ==
    [err |-> g.err, offer |-> g.offer, fetches |-> g.fetches, reads |-> g.reads,
     writes |-> g.writes, decodes |-> g.decodes]

Called(q, r, g, sr, pr) ==
    [q |-> q, time |-> clock, status |-> r.status, err |-> r.err, value |-> r.value,
     calls |-> r.calls, offers |-> Outcome(g), sku |-> sr, price |-> pr,
     before |-> Before(q)]

Idle ==
    [q |-> QShared, time |-> 0, status |-> "none", err |-> "", value |-> Zero,
     calls |-> <<>>,
     offers |-> [err |-> "", offer |-> EmptyOffer] @@ NoCalls,
     sku |-> [err |-> "", sku |-> ""],
     price |-> [err |-> "", price |-> NoPrice],
     before |-> [exists |-> FALSE, age |-> 0, offersExists |-> FALSE,
                 offersAge |-> 0, again |-> FALSE, value |-> Zero]]

NotCalled(file) ==
    [err |-> "", offer |-> EmptyOffer, file |-> file] @@ NoCalls

NoQuery == Query("", "", "", "")

NoOrigin ==
    [fetched |-> 0, by |-> [f \in CacheFiles |-> [q |-> NoQuery, value |-> Zero]]]

\* The origin of the files after a call of q at the time t: g is what
\* GetOffers returned, r the outcome of the call, file the per-query file
\* before the call.
Originate(q, t, g, r, file) ==
    [fetched |-> IF g.fetches = 1 /\ g.writes = 1 THEN t ELSE origin.fetched,
     by |-> IF r.file # file
            THEN [origin.by EXCEPT ![CacheFile(q)] = [q |-> q, value |-> r.value]]
            ELSE origin.by]

Remember(q, r) ==
    IF r.status = "ok"
    THEN [hist EXCEPT ![q] = [ok |-> TRUE, value |-> r.value, mtime |-> r.file.mtime]]
    ELSE hist

\* http.Get is called only when the catalog file is not fresh: the answers
\* the call may meet.
NoResponse == [kind |-> "None", body |-> Garbage]

Requests(file, t) ==
    IF OffersCacheFresh(file, t) THEN {NoResponse} ELSE NetResponses

\* One run of GetEC2Price(q) at the time `clock`.
GetEC2PriceHit(q) ==
    /\ QueryCacheFresh(cache[CacheFile(q)], clock)
    /\ LET r == HitPath(cache[CacheFile(q)])
       IN /\ last' = Called(q, r, NotCalled(offers), Idle.sku, Idle.price)
          /\ hist' = Remember(q, r)
    /\ UNCHANGED <<clock, ticks, offers, cache, origin, side>>

GetEC2PriceMiss(q) ==
    /\ ~QueryCacheFresh(cache[CacheFile(q)], clock)
    /\ \E net \in Requests(offers, clock) :
         LET g == GetOffers(offers, clock, net)
         IN \E sr \in GetSKUResultsOf[g.offer][q] :
              \E pr \in GetPriceResults(g.offer, sr.sku, q.term) :
                LET r == MissPath(cache[CacheFile(q)], clock, g, sr, pr)
                    ran == Len(r.calls)
                IN /\ last' = Called(q, r, g,
                                 IF ran >= 2 THEN sr ELSE Idle.sku,
                                 IF ran >= 3 THEN pr ELSE Idle.price)
                   /\ hist' = Remember(q, r)
                   /\ offers' = g.file
                   /\ cache' = [cache EXCEPT ![CacheFile(q)] = r.file]
                   /\ origin' = Originate(q, clock, g, r, cache[CacheFile(q)])
    /\ UNCHANGED <<clock, ticks, side>>

GetEC2Price(q) == GetEC2PriceHit(q) \/ GetEC2PriceMiss(q)

Tick(d) ==
    /\ ticks < MaxTicks
    /\ clock' = clock + d
    /\ ticks' = ticks + 1
    /\ UNCHANGED <<offers, cache, last, hist, origin, side>>

NoLookup ==
    [pc |-> "off", o |-> EmptyOffer, sku |-> "", term |-> "",
     res |-> [err |-> "", price |-> NoPrice]]

NoRace ==
    [wpc |-> "off", rpc |-> "off", old |-> Zero, new |-> Zero,
     err |-> "", value |-> Zero]

\* The state the specifications start from: an empty cache directory.
Start ==
    /\ clock = 0
    /\ ticks = 0
    /\ offers = NoOffers
    /\ cache = [f \in CacheFiles |-> NoFile]
    /\ last = Idle
    /\ hist = [q \in Queries |-> [ok |-> FALSE, value |-> Zero, mtime |-> 0]]
    /\ origin = NoOrigin

NoCodec == [pc |-> "off", v |-> Zero, out |-> Zero, err |-> ""]

Init ==
    /\ Start
    /\ codec = NoCodec
    /\ lookup = NoLookup
    /\ race = NoRace

Next ==
    \/ \E q \in Queries : GetEC2Price(q)
    \/ \E d \in Deltas : Tick(d)

Spec == Init /\ [][Next]_vars

(***************************************************************************)
(* The round trip of a blob: a 64-bit value is stored the way the miss     *)
(* branch stores a price, and loaded the way the hit branch loads it.      *)
(***************************************************************************)
SampleWords == {0, 1, 255, 256, 32768, 65535}

Values64 == {<<a, b, c, d>> : a \in SampleWords, b \in SampleWords,
                              c \in SampleWords, d \in SampleWords}

BlobFile == CacheFile(QShared)

InitCodec ==
    /\ Start
    /\ lookup = NoLookup
    /\ race = NoRace
    /\ \E v \in Values64 : codec = [pc |-> "start", v |-> v, out |-> Zero, err |-> ""]

\* Lines 151-157: binary.Write into a buffer, ioutil.WriteFile of the buffer.
StoreBlob ==
    /\ codec.pc = "start"
    /\ cache' = [cache EXCEPT ![BlobFile] = WriteFile(BinaryWrite(codec.v), clock)]
    /\ codec' = [codec EXCEPT !.pc = "stored"]
    /\ UNCHANGED <<clock, ticks, offers, last, hist, origin, lookup, race>>

\* Lines 113-119: ioutil.ReadFile, binary.Read from the bytes.
LoadBlob ==
    /\ codec.pc = "stored"
    /\ codec' = [codec EXCEPT !.pc = "loaded",
                              !.out = HitPath(cache[BlobFile]).value,
                              !.err = HitPath(cache[BlobFile]).err]
    /\ UNCHANGED <<clock, ticks, offers, cache, last, hist, origin, lookup, race>>

NextCodec == StoreBlob \/ LoadBlob

CodecSpec == InitCodec /\ [][NextCodec]_vars

(***************************************************************************)
(* Offer.GetPrice on its own: a decoded catalog whose Terms hold, for the   *)
(* term "OnDemand" and the sku "ABC", up to two Term entries with up to two *)
(* PriceDimensions each, asked for a present or absent sku and term.        *)
(***************************************************************************)
PricePerUnits == {NoMap, [USD |-> P0956], [USD |-> P0956, CNY |-> P3]}

DimensionKeys == {"dim1", "dim2"}

TermKeys == {"term1", "term2"}

\* map[string]PriceDimension over some of the dimension keys.
PriceDimensionMaps ==
    UNION {[D -> {[PricePerUnit |-> u] : u \in PricePerUnits}] :
              D \in SUBSET DimensionKeys}

\* map[string]Term over some of the term keys.
TermMaps ==
    UNION {[T -> {[PriceDimensions |-> m] : m \in PriceDimensionMaps}] :
              T \in SUBSET TermKeys}

PriceSkus == {"ABC", "ZZZ"}

PriceTerms == {"OnDemand", "Reserved"}

InitPrice ==
    /\ Start
    /\ codec = NoCodec
    /\ race = NoRace
    /\ \E m \in TermMaps, sku \in PriceSkus, term \in PriceTerms :
          lookup = [pc |-> "start",
                    o |-> [Products |-> [k \in {} |-> 0],
                           Terms |-> [OnDemand |-> [ABC |-> m]]],
                    sku |-> sku, term |-> term,
                    res |-> [err |-> "", price |-> NoPrice]]

\* Lines 167-182: one call of GetPrice, any iteration order of the maps.
CallGetPrice ==
    /\ lookup.pc = "start"
    /\ \E r \in GetPriceResults(lookup.o, lookup.sku, lookup.term) :
          lookup' = [lookup EXCEPT !.pc = "done", !.res = r]
    /\ UNCHANGED <<clock, ticks, offers, cache, last, hist, origin, codec, race>>

NextPrice == CallGetPrice

PriceSpec == InitPrice /\ [][NextPrice]_vars

(***************************************************************************)
(* Two processes run GetEC2Price for the query of BlobFile on one cache     *)
(* directory.  The file holds a blob stored at time 0.  The writer is a     *)
(* process that takes the miss branch and stores race.new; the reader is a  *)
(* process that takes the hit branch.  Their system calls interleave, and   *)
(* no lock is taken (lines 107-160).                                        *)
(***************************************************************************)
RacePrices == {ParseFloatOf[s].value : s \in {P0956, P15, P05}}

InitRace ==
    /\ clock = 0
    /\ ticks = 0
    /\ offers = NoOffers
    /\ last = Idle
    /\ hist = [q \in Queries |-> [ok |-> FALSE, value |-> Zero, mtime |-> 0]]
    /\ origin = NoOrigin
    /\ codec = NoCodec
    /\ lookup = NoLookup
    /\ \E old \in RacePrices, new \in RacePrices :
          /\ cache = [f \in CacheFiles |->
                        IF f = BlobFile THEN WriteFile(BinaryWrite(old), 0) ELSE NoFile]
          /\ race = [wpc |-> "stat", rpc |-> "stat", old |-> old, new |-> new,
                     err |-> "", value |-> Zero]

\* Lines 107-108 in the writer: os.Stat and the freshness test.  On a stale
\* file the pipeline of lines 127-155 yields race.new without touching the
\* file.
WriterStat ==
    /\ race.wpc = "stat"
    /\ race' = [race EXCEPT !.wpc = IF QueryCacheFresh(cache[BlobFile], clock)
                                     THEN "hit" ELSE "open"]
    /\ UNCHANGED <<clock, ticks, offers, cache, last, hist, origin, codec, lookup>>

\* Line 157, first half: ioutil.WriteFile opens the file with O_TRUNC, which
\* empties it.
WriterOpen ==
    /\ race.wpc = "open"
    /\ cache' = [cache EXCEPT ![BlobFile] = WriteFile(<<>>, clock)]
    /\ race' = [race EXCEPT !.wpc = "write"]
    /\ UNCHANGED <<clock, ticks, offers, last, hist, origin, codec, lookup>>

\* Line 157, second half: ioutil.WriteFile writes the 8 bytes and closes.
WriterWrite ==
    /\ race.wpc = "write"
    /\ cache' = [cache EXCEPT ![BlobFile] = WriteFile(BinaryWrite(race.new), clock)]
    /\ race' = [race EXCEPT !.wpc = "done"]
    /\ UNCHANGED <<clock, ticks, offers, last, hist, origin, codec, lookup>>

\* Lines 107-108 in the reader: os.Stat and the freshness test.
ReaderStat ==
    /\ race.rpc = "stat"
    /\ race' = [race EXCEPT !.rpc = IF QueryCacheFresh(cache[BlobFile], clock)
                                     THEN "read" ELSE "miss"]
    /\ UNCHANGED <<clock, ticks, offers, cache, last, hist, origin, codec, lookup>>

\* Lines 113-122 in the reader: ioutil.ReadFile and binary.Read of what the
\* file holds at that moment.
ReaderRead ==
    /\ race.rpc = "read"
    /\ race' = [race EXCEPT !.rpc = "done",
                            !.err = HitPath(cache[BlobFile]).err,
                            !.value = HitPath(cache[BlobFile]).value]
    /\ UNCHANGED <<clock, ticks, offers, cache, last, hist, origin, codec, lookup>>

NextRace ==
    \/ WriterStat
    \/ WriterOpen
    \/ WriterWrite
    \/ ReaderStat
    \/ ReaderRead
    \/ \E d \in Deltas : Tick(d)

RaceSpec == InitRace /\ [][NextRace]_vars

(***************************************************************************)
(* Properties.  `last` is the latest call; last.before is what it found.   *)
(***************************************************************************)
Hit == last.status # "none" /\ last.calls[1] = "ReadFile"

Miss == last.status # "none" /\ last.calls[1] = "GetOffers"

RanGetSKU == Miss /\ Len(last.calls) >= 2

Pipeline ==
    <<"GetOffers", "GetSKU", "GetPrice", "ParseFloat", "binary.Write", "WriteFile">>

IsPrefix(s, t) == Len(s) <= Len(t) /\ \A i \in 1..Len(s) : s[i] = t[i]

\* The keys of the products of o that satisfy the four predicates of q.
Candidates(o, q) ==
    {k \in DOMAIN o.Products :
        LET a == o.Products[k].Attributes
        IN /\ Lookup(a, "instanceType", "") = q.instance_type
           /\ Lookup(a, "location", "") = "US West (Oregon)"
           /\ Lookup(a, "tenancy", "") = q.tenancy
           /\ Lookup(a, "operatingSystem", "") = q.operating_system}

\* The (term, dimension, currency, price string) entries under Terms[term][sku].
PriceEntries(o, sku, term) ==
    LET terms == TermsOf(o, sku, term)
    IN {e \in UNION {UNION {{<<t, d, c, terms[t].PriceDimensions[d].PricePerUnit[c]>> :
                                c \in DOMAIN terms[t].PriceDimensions[d].PricePerUnit} :
                            d \in DOMAIN terms[t].PriceDimensions} :
                     t \in DOMAIN terms} : TRUE}

\* The per-query file holds the 8 little-endian bytes of the value the latest
\* call returned, written when that call ran.
StoredByLast ==
    cache[CacheFile(last.q)] =
        [exists |-> TRUE, data |-> LittleEndianBytes(last.value), mtime |-> last.time]

F0956 == <<16366, 38797, 20447, 15204>>

\* C1: a call of GetEC2Price(q) that follows a successful call of q while the
\* blob that call returned is still in q's file and younger than
\* MAX_CACHE_AGE succeeds with the same value, and makes no network fetch,
\* no read or decode of the catalog and no scan.
C1_FreshRepeatServedFromCache ==
    (last.status # "none" /\ last.before.again /\ last.before.age < MAX_CACHE_AGE)
    => /\ last.status = "ok"
       /\ last.value = last.before.value
       /\ last.calls = <<"ReadFile", "binary.Read">>
       /\ last.offers.fetches = 0
       /\ last.offers.reads = 0
       /\ last.offers.decodes = 0

C1_Witness ==
    /\ Hit
    /\ last.before.again
    /\ last.before.age = MAX_CACHE_AGE - 1
    /\ last.status = "ok"
    /\ last.value = F0956

\* C2: a call of GetEC2Price(q) that finds q's file MAX_CACHE_AGE or more
\* seconds old does not read it: it runs GetOffers, then GetSKU, then
\* GetPrice, then ParseFloat, each stage if the one before succeeded, and on
\* success the file holds the newly resolved value, written at the time of
\* the call.
C2_StaleBlobRerunsPipeline ==
    (last.status # "none" /\ last.before.exists /\ last.before.age >= MAX_CACHE_AGE)
    => /\ Len(last.calls) >= 1
       /\ IsPrefix(last.calls, Pipeline)
       /\ Len(last.calls) >= 2 <=> last.offers.err = ""
       /\ Len(last.calls) >= 3 <=> (last.offers.err = "" /\ last.sku.err = "")
       /\ Len(last.calls) >= 4 <=>
            (last.offers.err = "" /\ last.sku.err = "" /\ last.price.err = "")
       /\ last.status = "ok" <=> last.calls = Pipeline
       /\ last.status = "ok" => StoredByLast

C2_Witness ==
    /\ last.before.exists
    /\ last.before.again
    /\ last.before.age = MAX_CACHE_AGE
    /\ last.status = "ok"
    /\ last.value # last.before.value
    /\ StoredByLast

\* C3: on a miss, when the decoded catalog has exactly one product that
\* satisfies the four predicates and Terms[term][SKU of that product] holds
\* exactly one currency/price-string pair, a price string that is a number,
\* GetEC2Price returns the float64 value of that string and the query's file
\* holds exactly that value.
C3_UniqueMatchPriceReturnedAndStored ==
    \A k \in DOMAIN last.offers.offer.Products :
        LET o == last.offers.offer
            entries == PriceEntries(o, o.Products[k].SKU, last.q.term)
            text == (CHOOSE e \in entries : TRUE)[4]
        IN (/\ Miss
            /\ last.offers.err = ""
            /\ Candidates(o, last.q) = {k}
            /\ Cardinality(entries) = 1
            /\ ParseFloat(text).err = "")
           => /\ last.status = "ok"
              /\ last.value = ParseFloat(text).value
              /\ StoredByLast

\* The scenario of the specification: 0.956, stored as its 8 bytes.
C3_Witness ==
    /\ Miss
    /\ last.q = QShared
    /\ last.offers.offer = CatScenario
    /\ last.status = "ok"
    /\ last.value = F0956
    /\ cache[CacheFile(QShared)].data = <<100, 59, 223, 79, 141, 151, 238, 63>>

\* C4: whenever two or more products of the catalog satisfy the four
\* predicates, GetSKU returns the error "More than one SKU found!".
C4_TwoMatchesAlwaysAmbiguous ==
    (RanGetSKU /\ Cardinality(Candidates(last.offers.offer, last.q)) >= 2)
    => last.sku = [err |-> "More than one SKU found!", sku |-> ""]

\* C5: whenever exactly one product of the catalog satisfies the four
\* predicates, GetSKU returns, without error, the key of that product in the
\* product mapping.
C5_UniqueMatchReturnsItsKey ==
    \A k \in DOMAIN last.offers.offer.Products :
        (RanGetSKU /\ Candidates(last.offers.offer, last.q) = {k})
        => last.sku = [err |-> "", sku |-> k]

\* C6: whenever no product of the catalog satisfies the four predicates,
\* GetEC2Price fails with an error other than "More than one SKU found!" and
\* does not write the per-query file.
C6_NoMatchIsNotFound ==
    (RanGetSKU /\ Candidates(last.offers.offer, last.q) = {})
    => /\ last.status = "error"
       /\ last.err \notin {"", "More than one SKU found!"}
       /\ \A i \in DOMAIN last.calls : last.calls[i] # "WriteFile"

\* C7: when the network fetch fails, GetEC2Price returns that error to its
\* caller, after one fetch; the process does not end inside GetEC2Price.
C7_FetchFailureReturned ==
    (Miss /\ last.offers.err = "FetchFailed")
    => /\ last.status = "error"
       /\ last.err = "FetchFailed"
       /\ last.offers.fetches = 1

\* C8: a call of GetEC2Price(q) that ends in an error leaves q's file as it
\* was, and that file is not a fresh blob, so that the next call of q runs
\* the pipeline again.
C8_NoNegativeCaching ==
    [][last'.status \in {"error", "fatal"}
       => /\ cache'[CacheFile(last'.q)] = cache[CacheFile(last'.q)]
          /\ ~(/\ cache'[CacheFile(last'.q)].exists
               /\ last'.time - cache'[CacheFile(last'.q)].mtime < MAX_CACHE_AGE)]_vars

\* A failed call that found a stale blob and left it in place.
C8_Witness ==
    /\ last.status = "error"
    /\ last.err = PriceNotFound
    /\ last.before.exists
    /\ cache[CacheFile(last.q)].exists
    /\ cache[CacheFile(last.q)].mtime = last.time - last.before.age
    /\ cache[CacheFile(last.q)].data = LittleEndianBytes(F0956)

\* C9: a call takes the hit branch iff the per-query file exists and its age
\* is strictly less than MAX_CACHE_AGE; a call on the miss branch reads the
\* catalog from its file iff that file exists and its age is strictly less
\* than the same MAX_CACHE_AGE, and fetches otherwise; MAX_CACHE_AGE is 86400.
C9_StrictFreshnessOneConstant ==
    /\ MAX_CACHE_AGE = 86400
    /\ last.status # "none" =>
         /\ Hit <=> (last.before.exists /\ last.before.age < MAX_CACHE_AGE)
         /\ Miss <=> ~(last.before.exists /\ last.before.age < MAX_CACHE_AGE)
         /\ Miss =>
              /\ (last.offers.reads = 1 /\ last.offers.fetches = 0)
                    <=> (last.before.offersExists /\ last.before.offersAge < MAX_CACHE_AGE)
              /\ (last.offers.reads = 0 /\ last.offers.fetches = 1)
                    <=> ~(last.before.offersExists /\ last.before.offersAge < MAX_CACHE_AGE)

\* Both files exactly MAX_CACHE_AGE old: miss, and fetch.
C9_Witness ==
    /\ Miss
    /\ last.before.exists
    /\ last.before.age = MAX_CACHE_AGE
    /\ last.before.offersExists
    /\ last.before.offersAge = MAX_CACHE_AGE
    /\ last.offers.fetches = 1

\* C10: a 64-bit value stored as the blob of the miss branch and loaded as
\* the hit branch loads it comes back without error and bit for bit.
C10_BlobRoundTrip ==
    codec.pc = "loaded" => (codec.err = "" /\ codec.out = codec.v)

C10_Witness ==
    /\ codec.pc = "loaded"
    /\ codec.v = <<65535, 256, 255, 1>>
    /\ cache[BlobFile].data = <<1, 0, 255, 0, 0, 1, 255, 255>>
    /\ codec.out = <<65535, 256, 255, 1>>

\* C11: a GetOffers call that finds the catalog file fresh only reads it; the
\* file is written only by a call that fetched, so that after a call served
\* from the file its modification time is what it was.
C11_FreshCatalogOnlyRead ==
    Miss =>
       /\ last.offers.writes = 1 => last.offers.fetches = 1
       /\ last.offers.reads = 1 =>
            offers.mtime = last.time - last.before.offersAge

\* C12: the catalog bytes a call decodes were fetched from the network less
\* than MAX_CACHE_AGE before the call.
C12_DecodedCatalogYoungerThanMaxAge ==
    (Miss /\ last.offers.decodes = 1)
    => last.time - origin.fetched < MAX_CACHE_AGE

\* C13: the value a call takes from the cache was stored by a call of the
\* same query.
C13_HitValueStoredBySameQuery ==
    Hit => origin.by[CacheFile(last.q)].q = last.q

\* C16: every per-query file that exists holds exactly 8 bytes, the
\* little-endian bytes of the value returned by the call that wrote it.
C16_BlobIsEightBytesOfReturnedValue ==
    \A f \in CacheFiles :
        cache[f].exists =>
            /\ Len(cache[f].data) = 8
            /\ cache[f].data = LittleEndianBytes(origin.by[f].value)

\* After a failing call, with both files present.
C16_Witness ==
    /\ last.status = "error"
    /\ \A f \in CacheFiles : cache[f].exists
    /\ cache[CacheFile(QShared)].data = <<100, 59, 223, 79, 141, 151, 238, 63>>
    /\ origin.by[CacheFile(QShared)].value = F0956

\* C14: the bytes of a fetch are in the catalog file before they are decoded:
\* after a fetch whose bytes do not decode the file holds those bytes.  A
\* later call on a per-query miss that finds the file with such bytes and
\* fresh makes no fetch, is served the same bytes and fails on them again;
\* one that finds it MAX_CACHE_AGE old or older fetches.
C14_CorruptCatalogServedUntilExpiry ==
    /\ []((Miss /\ last.offers.fetches = 1 /\ last.offers.err = "MalformedCatalog")
            => offers = [exists |-> TRUE, data |-> Garbage, mtime |-> last.time])
    /\ [][(last' # last /\ Miss' /\ offers.exists /\ ~offers.data.valid)
            => IF clock - offers.mtime < MAX_CACHE_AGE
               THEN /\ last'.offers.fetches = 0
                    /\ last'.offers.reads = 1
                    /\ last'.status = "fatal"
                    /\ last'.err = "MalformedCatalog"
                    /\ offers'.data = offers.data
               ELSE last'.offers.fetches = 1]_vars

\* Corrupt bytes served from a catalog file one second short of expiry.
C14_Witness ==
    /\ Miss
    /\ last.offers.reads = 1
    /\ last.offers.fetches = 0
    /\ last.err = "MalformedCatalog"
    /\ last.before.offersAge = MAX_CACHE_AGE - 1
    /\ offers.data = Garbage

\* C18: a call ends with a value or a failure after at most one network
\* fetch, at most one read of the catalog file, not both, and at most one
\* decode; a call served from its per-query file makes none of them.
C18_OneFetchOneDecodePerCall ==
    last.status # "none" =>
       /\ last.status \in {"ok", "error", "fatal"}
       /\ last.offers.fetches <= 1
       /\ last.offers.decodes <= 1
       /\ last.offers.fetches + last.offers.reads <= 1
       /\ Hit => last.offers.fetches + last.offers.reads + last.offers.decodes = 0
       /\ \A i, j \in DOMAIN last.calls : i # j => last.calls[i] # last.calls[j]

\* A call that replaced an existing catalog file by one fetch, decoded it
\* once and returned a price.
C18_Witness ==
    /\ Miss
    /\ last.status = "ok"
    /\ last.offers.fetches = 1
    /\ last.offers.decodes = 1
    /\ last.before.offersExists

\* C15: GetPrice(sku, term) fails with "Could not find price!" exactly when
\* no (term entry, price dimension, currency) entry lies under
\* Terms[term][sku], which includes an absent term and an absent sku;
\* otherwise it succeeds with the currency and the price string of one of
\* those entries.
C15_PriceNotFoundIffNoEntry ==
    lookup.pc = "done" =>
       LET entries == PriceEntries(lookup.o, lookup.sku, lookup.term)
           absent == \/ lookup.term \notin DOMAIN lookup.o.Terms
                     \/ lookup.sku \notin DOMAIN lookup.o.Terms[lookup.term]
       IN /\ lookup.res.err \in {"", PriceNotFound}
          /\ lookup.res.err = PriceNotFound <=> entries = {}
          /\ absent => lookup.res.err = PriceNotFound
          /\ lookup.res.err = "" =>
                \E e \in entries : /\ e[3] = lookup.res.price.Currency
                                   /\ e[4] = lookup.res.price.Value

\* A price in CNY found under the second Term entry although the first Term
\* entry has no PriceDimension at all.
C15_Witness ==
    /\ lookup.pc = "done"
    /\ lookup.res = [err |-> "", price |-> [Currency |-> "CNY", Value |-> P3]]
    /\ lookup.sku = "ABC"
    /\ lookup.term = "OnDemand"
    /\ DOMAIN lookup.o.Terms["OnDemand"]["ABC"] = TermKeys
    /\ lookup.o.Terms["OnDemand"]["ABC"]["term1"].PriceDimensions = NoMap

\* C17: a reader that took the hit branch while another process was storing
\* a new blob in the same per-query file returns without error the value
\* that was stored before or the value being stored.
C17_RacingReadOldOrNew ==
    race.rpc = "done" =>
       /\ race.err = ""
       /\ race.value \in {race.old, race.new}
====
